---------------------------- MODULE Spec2Model ----------------------------
(* Poll lifecycle of pollbot: the Poll model (models/poll.py) and the      *)
(* management callback handlers (telegram/callback_handler/management.py). *)
(*                                                                         *)
(* Time is counted in whole hours from an epoch far from the ends of the   *)
(* datetime range; None stands for Python's None in a nullable DateTime or *)
(* Integer column.  A poll row is a record; a poll id that has no row (not *)
(* yet created, or deleted) holds NoPoll.  Every handler is one action: it *)
(* ends with the session.commit() of the handler, so `polls` is the        *)
(* committed content of the poll table and its dependent tables.           *)
(* datetime.now() is the naive local wall clock, which is not monotonic:   *)
(* every call that reads it takes its reading n from a set of instants     *)
(* around the thresholds of the due dates.                                 *)
(*                                                                         *)
(*   polls    poll id -> Poll row (with options, votes, references and     *)
(*            notifications), NoPoll where there is none                   *)
(*   next_id  the next value of the Poll.id sequence                       *)
(*   last     the handler that ran last: its name, its poll, the poll it   *)
(*            created, the date it was given and its clock reading         *)
(*   events   the session and messaging calls that handler made, in order  *)
(*   rendered what that handler's update_poll_messages read of the poll    *)
EXTENDS Integers, Sequences, FiniteSets, TLC

VARIABLES polls, next_id, last, events, rendered

vars == <<polls, next_id, last, events, rendered>>

-----------------------------------------------------------------------------
(* Bounds of the model *)

MaxPolls == 2
MaxVotes == 1
MaxOptions == 3
BaseDue == 200

-----------------------------------------------------------------------------
(* Program constants (hours) *)

Days7 == 168
Day1 == 24
Hours6 == 6

None == 0 - 1

PollIds == 1..MaxPolls
OptionNames == {"a", "b", "c"}
DueDates == {BaseDue}

(* The readings of datetime.now() in set_due_date: the hour before the     *)
(* first threshold of a due date, every threshold itself (the due date is  *)
(* the last one), and the hour after the due date.                         *)
Instants ==
    UNION {{D - Days7 - 1, D - Days7, D - Day1, D - Hours6, D, D + 1}
           : D \in DueDates}

(* The readings of datetime.now() in reopen_poll: before, at and after a   *)
(* due date.                                                               *)
ReopenInstants == UNION {{D - Hours6, D, D + 1} : D \in DueDates}

-----------------------------------------------------------------------------
(* The Poll row *)

NoPoll ==
    [exists |-> FALSE, user |-> "None", name |-> "None", description |-> "None",
     locale |-> "None", poll_type |-> "None", anonymous |-> FALSE,
     number_of_votes |-> None, allow_new_options |-> FALSE,
     option_sorting |-> "None", user_sorting |-> "None",
     results_visible |-> FALSE, show_percentage |-> FALSE,
     european_date_format |-> FALSE, created |-> FALSE, closed |-> FALSE,
     due_date |-> None, next_notification |-> None,
     expected_input |-> "None", in_settings |-> FALSE,
     options |-> <<>>, votes |-> 0, references |-> 0, notifications |-> 0]

(* The member names of the enums of pollbot.helper.enums. *)
PollType ==
    {"single_vote", "block_vote", "limited_vote", "doodle", "date_range_vote"}

UserSorting == {"user_chrono", "user_alphabetical"}

OptionSorting == {"option_chrono", "option_alphabetical"}

(* The owners of the polls. *)
Users == {"u1", "u2"}

(* Poll.__init__ followed by the column defaults the INSERT applies. *)
Poll(user) ==
    [exists |-> TRUE, user |-> user, name |-> "None", description |-> "None",
     locale |-> "english", poll_type |-> "single_vote", anonymous |-> FALSE,
     number_of_votes |-> None, allow_new_options |-> FALSE,
     option_sorting |-> "option_chrono", user_sorting |-> "user_chrono",
     results_visible |-> TRUE, show_percentage |-> TRUE,
     european_date_format |-> FALSE, created |-> FALSE, closed |-> FALSE,
     due_date |-> None, next_notification |-> None,
     expected_input |-> "None", in_settings |-> FALSE,
     options |-> <<>>, votes |-> 0, references |-> 0, notifications |-> 0]

(* Polls as the setup wizard and the settings menu leave them. *)
InitPolls ==
    { [Poll("u1") EXCEPT !.created = TRUE, !.name = "Lunch",
                         !.options = <<"a", "b">>],
      [Poll("u2") EXCEPT !.created = TRUE, !.name = "Trip",
                         !.description = "where to",
                         !.locale = "german", !.poll_type = "limited_vote",
                         !.anonymous = TRUE, !.number_of_votes = 2,
                         !.allow_new_options = TRUE,
                         !.option_sorting = "option_alphabetical",
                         !.user_sorting = "user_alphabetical",
                         !.results_visible = FALSE,
                         !.show_percentage = FALSE,
                         !.european_date_format = TRUE,
                         !.expected_input = "new_option",
                         !.in_settings = TRUE,
                         !.options = <<"b", "a">>,
                         !.references = 1, !.notifications = 1] }

-----------------------------------------------------------------------------
(* Poll.set_due_date *)

(* Variant: the first comparison is <= instead of <. *)
set_due_date_le(self, date, n) ==
    LET due == date IN
    [self EXCEPT !.due_date = due,
                 !.next_notification =
                     IF n <= due - Days7 THEN due - Days7
                     ELSE IF n < due - Day1 THEN due - Day1
                     ELSE IF n < due - Hours6 THEN due - Hours6
                     ELSE due]

(* Variant: the third comparison is <= instead of <. *)
set_due_date_le_hours(self, date, n) ==
    LET due == date IN
    [self EXCEPT !.due_date = due,
                 !.next_notification =
                     IF n < due - Days7 THEN due - Days7
                     ELSE IF n < due - Day1 THEN due - Day1
                     ELSE IF n <= due - Hours6 THEN due - Hours6
                     ELSE due]

(* Variant: a call that finds its threshold already scheduled for the same *)
(* due date moves on to the due date itself.                               *)
set_due_date_advances(self, date, n) ==
    LET due == date
        threshold == IF n < due - Days7 THEN due - Days7
                     ELSE IF n < due - Day1 THEN due - Day1
                     ELSE IF n < due - Hours6 THEN due - Hours6
                     ELSE due
    IN
    [self EXCEPT !.due_date = due,
                 !.next_notification =
                     IF self.due_date = due
                        /\ self.next_notification = threshold
                     THEN due
                     ELSE threshold]

set_due_date(self, date, n) ==
    LET due == date IN
    [self EXCEPT !.due_date = due,
                 !.next_notification =
                     IF n < due - Days7 THEN due - Days7
                     ELSE IF n < due - Day1 THEN due - Day1
                     ELSE IF n < due - Hours6 THEN due - Hours6
                     ELSE due]

(* Variant: the clone also takes over the due date and its notification. *)
clone_with_due_date(self) ==
    [self EXCEPT !.created = TRUE, !.closed = FALSE, !.locale = "english",
                 !.european_date_format = FALSE, !.expected_input = "None",
                 !.in_settings = FALSE, !.votes = 0, !.references = 0,
                 !.notifications = 0]

(* Variant: the copy of show_percentage is missing. *)
clone_without_show_percentage(self) ==
    [self EXCEPT !.created = TRUE, !.closed = FALSE, !.locale = "english",
                 !.european_date_format = FALSE, !.expected_input = "None",
                 !.in_settings = FALSE, !.votes = 0, !.references = 0,
                 !.notifications = 0, !.due_date = None,
                 !.next_notification = None, !.show_percentage = TRUE]

(* Variant: the locale and the date format are copied as well. *)
clone_copies_locale(self) ==
    LET poll == [Poll(self.user) EXCEPT !.created = TRUE] IN
    [poll EXCEPT !.name = self.name,
                 !.description = self.description,
                 !.locale = self.locale,
                 !.poll_type = self.poll_type,
                 !.anonymous = self.anonymous,
                 !.number_of_votes = self.number_of_votes,
                 !.allow_new_options = self.allow_new_options,
                 !.option_sorting = self.option_sorting,
                 !.user_sorting = self.user_sorting,
                 !.results_visible = self.results_visible,
                 !.show_percentage = self.show_percentage,
                 !.european_date_format = self.european_date_format,
                 !.options = [i \in 1..Len(self.options) |-> self.options[i]]]

(* Variant: option_sorting is copied from the source's user_sorting. *)
clone_swaps_sorting(self) ==
    LET poll == [Poll(self.user) EXCEPT !.created = TRUE] IN
    [poll EXCEPT !.name = self.name,
                 !.description = self.description,
                 !.poll_type = self.poll_type,
                 !.anonymous = self.anonymous,
                 !.number_of_votes = self.number_of_votes,
                 !.allow_new_options = self.allow_new_options,
                 !.option_sorting = self.user_sorting,
                 !.user_sorting = self.user_sorting,
                 !.results_visible = self.results_visible,
                 !.show_percentage = self.show_percentage,
                 !.options = [i \in 1..Len(self.options) |-> self.options[i]]]

(* Poll.clone: the new poll and its options as session.add leaves them. *)
clone(self) ==
    LET poll == [Poll(self.user) EXCEPT !.created = TRUE] IN
    [poll EXCEPT !.name = self.name,
                 !.description = self.description,
                 !.poll_type = self.poll_type,
                 !.anonymous = self.anonymous,
                 !.number_of_votes = self.number_of_votes,
                 !.allow_new_options = self.allow_new_options,
                 !.option_sorting = self.option_sorting,
                 !.user_sorting = self.user_sorting,
                 !.results_visible = self.results_visible,
                 !.show_percentage = self.show_percentage,
                 !.options = [i \in 1..Len(self.options) |-> self.options[i]]]

-----------------------------------------------------------------------------
(* Bookkeeping: the handler that ran last and the calls it made *)

Op(op, p, new, date, n) ==
    [op |-> op, poll |-> p, new |-> new, date |-> date, now |-> n]

Repeat(n, e) == [i \in 1..n |-> e]

Calls(evs) == {evs[i] : i \in 1..Len(evs)}

(* What update_poll_messages reads of the poll it renders again, and the   *)
(* value for a handler that does not call it.                              *)
Render(poll) ==
    [closed |-> poll.closed, due_date |-> poll.due_date, votes |-> poll.votes]

NoRender == [closed |-> FALSE, due_date |-> None, votes |-> None]

(* The positions of the calls of `e` in a handler's call sequence. *)
Positions(evs, e) == {i \in 1..Len(evs) : evs[i] = e}

-----------------------------------------------------------------------------
(* The handlers *)

(* Variant: the messages are removed only after the delete is committed. *)
delete_poll_commits_first(p) ==
    /\ polls[p].exists
    /\ polls' = [polls EXCEPT ![p] = NoPoll]
    /\ events' = <<"session.delete",
                   "session.commit",
                   "remove_poll_messages",
                   "query.answer">>
    /\ rendered' = NoRender
    /\ last' = Op("delete", p, 0, None, None)
    /\ UNCHANGED next_id

delete_poll(p) ==
    /\ polls[p].exists
    /\ polls' = [polls EXCEPT ![p] = NoPoll]
    /\ events' = <<"remove_poll_messages",
                   "session.delete",
                   "session.commit",
                   "query.answer">>
    /\ rendered' = NoRender
    /\ last' = Op("delete", p, 0, None, None)
    /\ UNCHANGED next_id

(* Variant: closing also drops the pending notification. *)
close_poll_clears_notification(p) ==
    /\ polls[p].exists
    /\ polls' = [polls EXCEPT ![p].closed = TRUE,
                              ![p].next_notification = None]
    /\ events' = <<"session.commit",
                   "update_poll_messages",
                   "query.answer">>
    /\ rendered' = Render(polls'[p])
    /\ last' = Op("close", p, 0, None, None)
    /\ UNCHANGED next_id

(* Variant: the messages are updated first, from the poll as it was found, *)
(* and the commit follows.                                                 *)
close_poll_renders_first(p) ==
    /\ polls[p].exists
    /\ polls' = [polls EXCEPT ![p].closed = TRUE]
    /\ events' = <<"update_poll_messages",
                   "session.commit",
                   "query.answer">>
    /\ rendered' = Render(polls[p])
    /\ last' = Op("close", p, 0, None, None)
    /\ UNCHANGED next_id

(* Variant: the button toggles the closed flag. *)
close_poll_toggles(p) ==
    /\ polls[p].exists
    /\ polls' = [polls EXCEPT ![p].closed = ~polls[p].closed]
    /\ events' = <<"session.commit",
                   "update_poll_messages",
                   "query.answer">>
    /\ rendered' = Render(polls'[p])
    /\ last' = Op("close", p, 0, None, None)
    /\ UNCHANGED next_id

close_poll(p) ==
    /\ polls[p].exists
    /\ polls' = [polls EXCEPT ![p].closed = TRUE]
    /\ events' = <<"session.commit",
                   "update_poll_messages",
                   "query.answer">>
    /\ rendered' = Render(polls'[p])
    /\ last' = Op("close", p, 0, None, None)
    /\ UNCHANGED next_id

(* The body of reopen_poll behind its guard, with the fields an overdue    *)
(* poll gets cleared given as `cleared`.                                   *)
ReopenBody(p, n, cleared) ==
    /\ polls' =
          IF polls[p].due_date # None /\ polls[p].due_date <= n
          THEN [polls EXCEPT ![p] = [f \in DOMAIN polls[p] |->
                                        IF f = "closed" THEN FALSE
                                        ELSE IF f \in cleared THEN None
                                        ELSE polls[p][f]]]
          ELSE [polls EXCEPT ![p].closed = FALSE]
    /\ events' = <<"session.commit", "update_poll_messages">>
    /\ rendered' = Render(polls'[p])
    /\ last' = Op("reopen", p, 0, None,
                  IF polls[p].due_date # None THEN n ELSE None)

(* Variant: the results_visible guard is missing. *)
reopen_poll_unguarded(p, n) ==
    /\ polls[p].exists
    /\ ReopenBody(p, n, {"due_date", "next_notification"})
    /\ UNCHANGED next_id

(* Variant: the results_visible guard is inverted. *)
reopen_poll_inverted(p, n) ==
    /\ polls[p].exists
    /\ IF polls[p].results_visible
       THEN /\ events' = <<"query.answer">>
            /\ rendered' = NoRender
            /\ last' = Op("reopen", p, 0, None, None)
            /\ UNCHANGED polls
       ELSE ReopenBody(p, n, {"due_date", "next_notification"})
    /\ UNCHANGED next_id

(* Variant: an overdue poll loses its due date but keeps its notification. *)
reopen_poll_keeps_notification(p, n) ==
    /\ polls[p].exists
    /\ IF ~polls[p].results_visible
       THEN /\ events' = <<"query.answer">>
            /\ rendered' = NoRender
            /\ last' = Op("reopen", p, 0, None, None)
            /\ UNCHANGED polls
       ELSE ReopenBody(p, n, {"due_date"})
    /\ UNCHANGED next_id

(* Variant: an overdue poll is reopened with its due date left in place. *)
reopen_poll_keeps_due_date(p, n) ==
    /\ polls[p].exists
    /\ IF ~polls[p].results_visible
       THEN /\ events' = <<"query.answer">>
            /\ rendered' = NoRender
            /\ last' = Op("reopen", p, 0, None, None)
            /\ UNCHANGED polls
       ELSE ReopenBody(p, n, {})
    /\ UNCHANGED next_id

(* Variant: an overdue poll loses its notification but keeps its due date. *)
reopen_poll_keeps_only_due_date(p, n) ==
    /\ polls[p].exists
    /\ IF ~polls[p].results_visible
       THEN /\ events' = <<"query.answer">>
            /\ rendered' = NoRender
            /\ last' = Op("reopen", p, 0, None, None)
            /\ UNCHANGED polls
       ELSE ReopenBody(p, n, {"next_notification"})
    /\ UNCHANGED next_id

(* Variant: a due date equal to the clock reading is kept. *)
reopen_poll_strict(p, n) ==
    /\ polls[p].exists
    /\ IF ~polls[p].results_visible
       THEN /\ events' = <<"query.answer">>
            /\ rendered' = NoRender
            /\ last' = Op("reopen", p, 0, None, None)
            /\ UNCHANGED polls
       ELSE /\ polls' =
                  IF polls[p].due_date # None /\ polls[p].due_date < n
                  THEN [polls EXCEPT ![p].closed = FALSE,
                                     ![p].due_date = None,
                                     ![p].next_notification = None]
                  ELSE [polls EXCEPT ![p].closed = FALSE]
            /\ events' = <<"session.commit", "update_poll_messages">>
            /\ rendered' = Render(polls'[p])
            /\ last' = Op("reopen", p, 0, None,
                          IF polls[p].due_date # None THEN n ELSE None)
    /\ UNCHANGED next_id

(* datetime.now() is read only once the guard has passed and the poll has  *)
(* a due date: `last` holds the reading n only then.                       *)
reopen_poll(p, n) ==
    /\ polls[p].exists
    /\ IF ~polls[p].results_visible
       THEN /\ events' = <<"query.answer">>
            /\ rendered' = NoRender
            /\ last' = Op("reopen", p, 0, None, None)
            /\ UNCHANGED polls
       ELSE /\ polls' =
                  IF polls[p].due_date # None /\ polls[p].due_date <= n
                  THEN [polls EXCEPT ![p].closed = FALSE,
                                     ![p].due_date = None,
                                     ![p].next_notification = None]
                  ELSE [polls EXCEPT ![p].closed = FALSE]
            /\ events' = <<"session.commit",
                           "update_poll_messages">>
            /\ rendered' = Render(polls'[p])
            /\ last' = Op("reopen", p, 0, None,
                          IF polls[p].due_date # None THEN n ELSE None)
    /\ UNCHANGED next_id

(* Variant: resetting the votes also reopens the poll. *)
reset_poll_reopens(p) ==
    /\ polls[p].exists
    /\ polls' = [polls EXCEPT ![p].votes = 0, ![p].closed = FALSE]
    /\ events' = Repeat(polls[p].votes, "session.delete")
                 \o <<"session.commit",
                      "update_poll_messages",
                      "query.answer">>
    /\ rendered' = Render(polls'[p])
    /\ last' = Op("reset", p, 0, None, None)
    /\ UNCHANGED next_id

reset_poll(p) ==
    /\ polls[p].exists
    /\ polls' = [polls EXCEPT ![p].votes = 0]
    /\ events' = Repeat(polls[p].votes, "session.delete")
                 \o <<"session.commit",
                      "update_poll_messages",
                      "query.answer">>
    /\ rendered' = Render(polls'[p])
    /\ last' = Op("reset", p, 0, None, None)
    /\ UNCHANGED next_id

(* Variant: the clone is given the source's PollOption rows themselves, so *)
(* the rows move to the new poll.                                          *)
clone_poll_moves_options(p) ==
    /\ polls[p].exists
    /\ next_id <= MaxPolls
    /\ polls' = [polls EXCEPT ![next_id] = clone(polls[p]),
                              ![p].options = <<>>]
    /\ next_id' = next_id + 1
    /\ events' = <<"session.add">>
                 \o <<"session.commit", "send_message", "query.answer">>
    /\ rendered' = NoRender
    /\ last' = Op("clone", p, next_id, None, None)

(* Variant: the commit follows the add of the poll, and the options added  *)
(* after it are never committed.                                           *)
clone_poll_commits_early(p) ==
    /\ polls[p].exists
    /\ next_id <= MaxPolls
    /\ polls' = [polls EXCEPT
                     ![next_id] = [clone(polls[p]) EXCEPT !.options = <<>>]]
    /\ next_id' = next_id + 1
    /\ events' = <<"session.add", "session.commit">>
                 \o Repeat(Len(polls[p].options), "session.add")
                 \o <<"send_message", "query.answer">>
    /\ rendered' = NoRender
    /\ last' = Op("clone", p, next_id, None, None)

clone_poll(p) ==
    /\ polls[p].exists
    /\ next_id <= MaxPolls
    /\ polls' = [polls EXCEPT ![next_id] = clone(polls[p])]
    /\ next_id' = next_id + 1
    /\ events' = <<"session.add">>
                 \o Repeat(Len(polls[p].options), "session.add")
                 \o <<"session.commit",
                      "send_message",
                      "query.answer">>
    /\ rendered' = NoRender
    /\ last' = Op("clone", p, next_id, None, None)

(* A caller of Poll.set_due_date (the due date picker of the settings). *)
SetDueDate(p, date, n) ==
    /\ polls[p].exists
    /\ polls' = [polls EXCEPT ![p] = set_due_date(polls[p], date, n)]
    /\ events' = <<"session.commit">>
    /\ rendered' = NoRender
    /\ last' = Op("set_due_date", p, 0, date, n)
    /\ UNCHANGED next_id

(* The owner sends the name of a new option while the poll expects one;    *)
(* names are unique within a poll.                                         *)
AddOption(p, name) ==
    /\ polls[p].exists
    /\ polls[p].expected_input = "new_option"
    /\ Len(polls[p].options) < MaxOptions
    /\ \A i \in 1..Len(polls[p].options) : polls[p].options[i] # name
    /\ polls' = [polls EXCEPT ![p].options = Append(@, name)]
    /\ events' = <<"session.commit">>
    /\ rendered' = NoRender
    /\ last' = Op("add_option", p, 0, None, None)
    /\ UNCHANGED next_id

-----------------------------------------------------------------------------

(* One live poll, with the votes cast on it so far. *)
Init ==
    /\ \E src \in InitPolls, v \in 0..MaxVotes :
           polls = [p \in PollIds |->
                       IF p = 1 THEN [src EXCEPT !.votes = v] ELSE NoPoll]
    /\ next_id = 2
    /\ last = Op("init", 0, 0, None, None)
    /\ events = <<>>
    /\ rendered = NoRender

Next ==
    \/ \E p \in PollIds : delete_poll(p)
    \/ \E p \in PollIds : close_poll(p)
    \/ \E p \in PollIds, n \in ReopenInstants : reopen_poll(p, n)
    \/ \E p \in PollIds : reset_poll(p)
    \/ \E p \in PollIds : clone_poll(p)
    \/ \E p \in PollIds, date \in DueDates, n \in Instants :
          SetDueDate(p, date, n)
    \/ \E p \in PollIds, name \in OptionNames : AddOption(p, name)

Spec == Init /\ [][Next]_vars

-----------------------------------------------------------------------------
(* Properties *)

(* The four branches of the schedule as intervals of the reading N. *)
Branch(D, N) ==
    <<N < D - Days7,
      D - Days7 <= N /\ N < D - Day1,
      D - Day1 <= N /\ N < D - Hours6,
      D - Hours6 <= N>>

Threshold(D) == <<D - Days7, D - Day1, D - Hours6, D>>

(* C1: set_due_date(D) at time N sets due_date = D and next_notification   *)
(* to the threshold of the one branch N falls into: one of D-7d, D-1d,     *)
(* D-6h, D, never later than D.                                            *)
C1_SetDueDateSchedule ==
    last.op = "set_due_date" =>
        LET D == last.date
            N == last.now
            q == polls[last.poll]
        IN /\ q.due_date = D
           /\ Cardinality({i \in 1..4 : Branch(D, N)[i]}) = 1
           /\ \A i \in 1..4 :
                  Branch(D, N)[i] => q.next_notification = Threshold(D)[i]
           /\ q.next_notification \in {D - Days7, D - Day1, D - Hours6, D}
           /\ q.next_notification <= D

(* set_due_date was called exactly one day before the due date: the third  *)
(* branch applies.                                                         *)
C1_Witness ==
    /\ last.op = "set_due_date"
    /\ last.now = last.date - Day1
    /\ polls[last.poll].next_notification = last.date - Hours6

(* C2: a poll whose next_notification is non-null has a due date, and      *)
(* next_notification <= due_date.                                          *)
C2_NotificationNotAfterDueDate ==
    \A p \in PollIds :
        polls[p].exists /\ polls[p].next_notification # None =>
            /\ polls[p].due_date # None
            /\ polls[p].next_notification <= polls[p].due_date

(* A closed clone carries a notification that lies before its due date.    *)
C2_Witness ==
    /\ last.op = "close"
    /\ last.poll > 1
    /\ polls[last.poll].next_notification # None
    /\ polls[last.poll].next_notification < polls[last.poll].due_date

(* C3: reopen on a poll with results_visible = false changes no poll and   *)
(* performs neither a commit nor a re-render.                              *)
C3_ReopenHiddenResultsFails ==
    [][last'.op = "reopen" /\ ~polls[last'.poll].results_visible =>
           /\ polls' = polls
           /\ "session.commit" \notin Calls(events')
           /\ "update_poll_messages" \notin Calls(events')]_vars

(* reopen was refused on a closed poll that has a due date.                *)
C3_Witness ==
    /\ last.op = "reopen"
    /\ ~polls[last.poll].results_visible
    /\ polls[last.poll].closed
    /\ polls[last.poll].due_date # None
    /\ events = <<"query.answer">>

(* C4: reopen on a poll with results_visible = true whose due date lies    *)
(* before the current time opens it and clears due_date and                *)
(* next_notification.                                                      *)
C4_ReopenOverdueClears ==
    [][last'.op = "reopen"
         /\ polls[last'.poll].results_visible
         /\ polls[last'.poll].due_date # None
         /\ polls[last'.poll].due_date < last'.now =>
           polls'[last'.poll] =
               [polls[last'.poll] EXCEPT !.closed = FALSE,
                                         !.due_date = None,
                                         !.next_notification = None]]_vars

(* A poll was reopened an hour after its due date.                         *)
C4_Witness ==
    /\ last.op = "reopen"
    /\ last.now = BaseDue + 1
    /\ ~polls[last.poll].closed
    /\ polls[last.poll].due_date = None
    /\ polls[last.poll].next_notification = None
    /\ "session.commit" \in Calls(events)

(* C5: a closed poll with results_visible = false is still closed after    *)
(* every step that leaves it in place with results_visible = false.        *)
C5_HiddenResultsStayClosed ==
    [][\A p \in PollIds :
           /\ polls[p].exists /\ polls[p].closed
           /\ ~polls[p].results_visible
           /\ polls'[p].exists /\ ~polls'[p].results_visible
           => polls'[p].closed]_vars

(* A closed clone with hidden results went through a reopen.               *)
C5_Witness ==
    /\ last.op = "reopen"
    /\ last.poll > 1
    /\ ~polls[last.poll].results_visible
    /\ polls[last.poll].closed
    /\ polls[last.poll].due_date = None

(* C6: clone yields a new poll of the same user with created = true,       *)
(* closed = false, no due date, no notification time, no votes, no         *)
(* notifications, no references, and the source's option names in order.   *)
C6_CloneStartsFresh ==
    [][last'.op = "clone" =>
           LET s == polls[last'.poll]
               c == polls'[last'.new]
           IN /\ ~polls[last'.new].exists
              /\ c.exists
              /\ c.user = s.user
              /\ c.created
              /\ ~c.closed
              /\ c.due_date = None
              /\ c.next_notification = None
              /\ c.votes = 0
              /\ c.notifications = 0
              /\ c.references = 0
              /\ Len(c.options) = Len(s.options)
              /\ \A i \in 1..Len(s.options) : c.options[i] = s.options[i]]_vars

(* A closed poll with a due date, a vote, a notification, a reference and  *)
(* three options was cloned.                                               *)
C6_Witness ==
    /\ last.op = "clone"
    /\ polls[last.poll].closed
    /\ polls[last.poll].due_date # None
    /\ polls[last.poll].votes > 0
    /\ polls[last.poll].notifications > 0
    /\ polls[last.poll].references > 0
    /\ Len(polls[last.poll].options) = 3
    /\ polls[last.new].options = polls[last.poll].options

(* C7: the clone's name, description, poll type, anonymity, number of      *)
(* votes, allow-new-options, option sorting, user sorting, results-visible *)
(* and show-percentage equal the source's at clone time.                   *)
C7_CloneCopiesConfiguration ==
    [][last'.op = "clone" =>
           LET s == polls[last'.poll]
               c == polls'[last'.new]
           IN /\ c.name = s.name
              /\ c.description = s.description
              /\ c.poll_type = s.poll_type
              /\ c.anonymous = s.anonymous
              /\ c.number_of_votes = s.number_of_votes
              /\ c.allow_new_options = s.allow_new_options
              /\ c.option_sorting = s.option_sorting
              /\ c.user_sorting = s.user_sorting
              /\ c.results_visible = s.results_visible
              /\ c.show_percentage = s.show_percentage]_vars

(* A poll whose ten copied fields all differ from the defaults was cloned. *)
C7_Witness ==
    /\ last.op = "clone"
    /\ LET c == polls[last.new]
           d == Poll(c.user)
       IN /\ c.name # d.name
          /\ c.description # d.description
          /\ c.poll_type # d.poll_type
          /\ c.anonymous # d.anonymous
          /\ c.number_of_votes # d.number_of_votes
          /\ c.allow_new_options # d.allow_new_options
          /\ c.option_sorting # d.option_sorting
          /\ c.user_sorting # d.user_sorting
          /\ c.results_visible # d.results_visible
          /\ c.show_percentage # d.show_percentage

(* C8: clone leaves its source as it was, and every operation leaves every *)
(* poll other than the one it is applied to as it was.                     *)
C8_CloneIndependent ==
    [][/\ last'.op = "clone" => polls'[last'.poll] = polls[last'.poll]
       /\ \A q \in PollIds :
              polls[q].exists /\ q # last'.poll => polls'[q] = polls[q]]_vars

(* An option was added to the source after it was cloned: the clone has    *)
(* fewer options than the source.                                          *)
C8_Witness ==
    /\ last.op = "add_option"
    /\ last.poll = 1
    /\ polls[2].exists
    /\ Len(polls[2].options) < Len(polls[1].options)

(* C9: reset leaves the poll with zero votes and every other field,        *)
(* options included, as it was.                                            *)
C9_ResetOnlyRemovesVotes ==
    [][last'.op = "reset" =>
           /\ polls'[last'.poll].votes = 0
           /\ polls'[last'.poll] = [polls[last'.poll] EXCEPT !.votes = 0]]_vars

(* A closed poll with a due date had a vote removed by reset.              *)
C9_Witness ==
    /\ last.op = "reset"
    /\ "session.delete" \in Calls(events)
    /\ polls[last.poll].votes = 0
    /\ polls[last.poll].closed
    /\ polls[last.poll].due_date # None

(* C10, as stated: close, reopen, reset and clone leave the                *)
(* next_notification of the poll they are applied to unchanged (delete     *)
(* leaves no row to compare).                                              *)
C10_OnlySetDueDateWrites ==
    [][last'.op \in {"close", "reopen", "reset", "clone"} =>
           polls'[last'.poll].next_notification =
               polls[last'.poll].next_notification]_vars

(* C10, amended: set_due_date is the only operation that writes a non-null *)
(* next_notification; close, reset and clone leave it unchanged; reopen    *)
(* leaves it unchanged unless the results are visible and the due date is  *)
(* at or before the current time, and then sets it to null.                *)
C10_OnlySetDueDateSchedules ==
    [][/\ last'.op \in {"close", "reset", "clone"} =>
              polls'[last'.poll].next_notification =
                  polls[last'.poll].next_notification
       /\ last'.op = "reopen" =>
              polls'[last'.poll].next_notification =
                  IF /\ polls[last'.poll].results_visible
                     /\ polls[last'.poll].due_date # None
                     /\ polls[last'.poll].due_date <= last'.now
                  THEN None
                  ELSE polls[last'.poll].next_notification
       /\ \A p \in PollIds :
              /\ polls[p].exists /\ polls'[p].exists
              /\ polls'[p].next_notification # polls[p].next_notification
              /\ polls'[p].next_notification # None
              => last'.op = "set_due_date" /\ last'.poll = p]_vars

(* A poll was reopened before its due date and kept its notification.      *)
C10_Witness ==
    /\ last.op = "reopen"
    /\ last.now # None
    /\ ~polls[last.poll].closed
    /\ polls[last.poll].next_notification # None

(* C11: a poll whose due_date is set has a non-null next_notification.     *)
C11_DueDateHasNotification ==
    \A p \in PollIds :
        polls[p].exists /\ polls[p].due_date # None =>
            polls[p].next_notification # None

(* A clone was reopened before its due date, which it keeps together with  *)
(* the first notification time.                                            *)
C11_Witness ==
    /\ last.op = "reopen"
    /\ last.poll > 1
    /\ last.now < polls[last.poll].due_date
    /\ polls[last.poll].next_notification = polls[last.poll].due_date - Days7

(* C12: wherever close_poll or reopen_poll runs on a poll, and they run on *)
(* every existing poll, open or closed, delete_poll can run on it as well; *)
(* delete_poll removes the poll's messages before it deletes and commits;  *)
(* the deleted poll is absent with its options, votes, references and      *)
(* notifications, and no later step brings back or changes a deleted poll. *)
C12_DeleteIsFinal ==
    [][/\ \A p \in PollIds :
              /\ last'.op \in {"close", "reopen"}
              /\ p = last'.poll
              /\ polls[p].exists
              => ENABLED delete_poll(p)
       /\ last'.op = "delete" =>
              /\ polls[last'.poll].exists
              /\ polls'[last'.poll] = NoPoll
              /\ \A r \in Positions(events', "remove_poll_messages") :
                 \A d \in Positions(events', "session.delete") :
                 \A c \in Positions(events', "session.commit") :
                     r < d /\ d < c
              /\ Positions(events', "remove_poll_messages") # {}
              /\ Positions(events', "session.commit") # {}
       /\ \A p \in PollIds :
              p < next_id /\ ~polls[p].exists => polls'[p] = NoPoll
      ]_vars

(* The source poll was deleted, and a later handler has run on the clone   *)
(* made of it before.                                                      *)
C12_Witness ==
    /\ ~polls[1].exists
    /\ polls[1] = NoPoll
    /\ last.op = "reset"
    /\ last.poll > 1
    /\ polls[last.poll].exists

(* C13: close_poll leaves the poll closed whatever it was before, writes   *)
(* no field but closed, leaves every other poll alone, and changes nothing *)
(* at all on a poll that is already closed (so a second close in a row     *)
(* gives the state of the first).                                          *)
C13_CloseIdempotent ==
    [][last'.op = "close" =>
          /\ polls'[last'.poll].closed
          /\ polls' = [polls EXCEPT ![last'.poll].closed = TRUE]
          /\ polls[last'.poll].closed => polls' = polls
          /\ last.op = "close" /\ last.poll = last'.poll => polls' = polls
      ]_vars

(* A poll with a due date, a pending notification and a vote was closed.   *)
C13_Witness ==
    /\ last.op = "close"
    /\ polls[last.poll].closed
    /\ polls[last.poll].due_date # None
    /\ polls[last.poll].next_notification # None
    /\ polls[last.poll].votes > 0
    /\ Len(polls[last.poll].options) > 0

(* C14: set_due_date is idempotent for a fixed date and clock reading: the *)
(* poll a call leaves behind is not changed by the same call again, and    *)
(* its due_date and next_notification are those the call gives a poll that *)
(* never had a due date.                                                   *)
C14_SetDueDateIdempotent ==
    last.op = "set_due_date" =>
        /\ set_due_date(polls[last.poll], last.date, last.now)
               = polls[last.poll]
        /\ polls[last.poll].due_date
               = set_due_date(Poll(polls[last.poll].user),
                              last.date, last.now).due_date
        /\ polls[last.poll].next_notification
               = set_due_date(Poll(polls[last.poll].user),
                              last.date, last.now).next_notification

(* The due date of a closed poll was set exactly seven days ahead, so the  *)
(* notification of the day before is the one scheduled.                    *)
C14_Witness ==
    /\ last.op = "set_due_date"
    /\ last.now = last.date - Days7
    /\ polls[last.poll].closed
    /\ polls[last.poll].due_date = last.date
    /\ polls[last.poll].next_notification = last.date - Day1

(* C15: every poll, the first one or a clone, after any handlers, has a    *)
(* poll_type, an option_sorting and a user_sorting that name a member of   *)
(* their enums; a poll fresh from the constructor is a single_vote poll,   *)
(* not anonymous, with visible results, sorted user_chrono and             *)
(* option_chrono.                                                          *)
C15_EnumFieldsValid ==
    /\ \A p \in PollIds :
           polls[p].exists =>
               /\ polls[p].poll_type \in PollType
               /\ polls[p].option_sorting \in OptionSorting
               /\ polls[p].user_sorting \in UserSorting
    /\ \A u \in Users :
           /\ Poll(u).poll_type = "single_vote"
           /\ Poll(u).anonymous = FALSE
           /\ Poll(u).results_visible = TRUE
           /\ Poll(u).user_sorting = "user_chrono"
           /\ Poll(u).option_sorting = "option_chrono"

(* The clone of a limited_vote poll with alphabetical sortings, closed     *)
(* after its source is gone.                                               *)
C15_Witness ==
    \E p \in PollIds :
        /\ p > 1
        /\ polls[p].exists
        /\ polls[p].closed
        /\ polls[p].poll_type = "limited_vote"
        /\ polls[p].option_sorting = "option_alphabetical"
        /\ polls[p].user_sorting = "user_alphabetical"
        /\ ~polls[1].exists

(* C16: a clone enters the committed state in one step, made by clone_poll *)
(* with a single commit that follows the add of the poll and the add of    *)
(* every option; in that step it has one option for each option its source *)
(* has, in the same order, so no committed state holds a clone with only   *)
(* some of them.                                                           *)
C16_CloneAtomic ==
    [][\A c \in PollIds :
          ~polls[c].exists /\ polls'[c].exists =>
              /\ last'.op = "clone"
              /\ last'.new = c
              /\ polls[last'.poll].exists
              /\ Len(polls'[c].options) = Len(polls[last'.poll].options)
              /\ \A i \in 1..Len(polls[last'.poll].options) :
                     polls'[c].options[i] = polls[last'.poll].options[i]
              /\ Cardinality(Positions(events', "session.commit")) = 1
              /\ Cardinality(Positions(events', "session.add"))
                     = 1 + Len(polls[last'.poll].options)
              /\ \A a \in Positions(events', "session.add") :
                 \A k \in Positions(events', "session.commit") : a < k
      ]_vars

(* A poll that had got a third option was cloned: four adds, then the      *)
(* commit, and the clone is there with all three options.                  *)
C16_Witness ==
    /\ last.op = "clone"
    /\ polls[last.new].exists
    /\ Len(polls[last.new].options) = MaxOptions
    /\ Cardinality(Positions(events, "session.add")) = MaxOptions + 1
    /\ Positions(events, "session.commit") = {MaxOptions + 2}

(* C17: close_poll, reset_poll and a reopen_poll that passes its guard     *)
(* commit once, after their deletes, and update the poll's messages once,  *)
(* after the commit; the update shows the closed flag, the due date and    *)
(* the votes of the committed poll; a reopen_poll stopped by its guard     *)
(* neither commits nor updates.                                            *)
C17_CommitBeforeUpdate ==
    last.op \in {"close", "reopen", "reset"} =>
        LET u == Positions(events, "update_poll_messages")
            c == Positions(events, "session.commit")
            d == Positions(events, "session.delete")
            committed == \/ last.op \in {"close", "reset"}
                         \/ polls[last.poll].results_visible
        IN /\ committed => Cardinality(c) = 1 /\ Cardinality(u) = 1
           /\ ~committed => c = {} /\ u = {}
           /\ \A i \in u : \E k \in c : k < i
           /\ \A i \in d : \A k \in c : i < k
           /\ u # {} => rendered = Render(polls[last.poll])
           /\ u = {} => rendered = NoRender

(* An open poll with a vote was closed: the commit, then the update, which *)
(* shows the poll closed.                                                  *)
C17_Witness ==
    /\ last.op = "close"
    /\ events[1] = "session.commit"
    /\ events[2] = "update_poll_messages"
    /\ rendered.closed
    /\ rendered.votes > 0
    /\ rendered = Render(polls[last.poll])

(* C18: reopen_poll on a poll with visible results leaves due_date and     *)
(* next_notification as they are exactly when the due date is null or      *)
(* later than the clock reading, and clears both otherwise, a due date     *)
(* equal to the reading included; what it keeps it does not compute again, *)
(* even a next_notification that lies before the reading.                  *)
C18_ReopenKeepsFutureDueDate ==
    [][last'.op = "reopen" /\ polls[last'.poll].results_visible =>
          LET old == polls[last'.poll]
              new == polls'[last'.poll]
              kept == old.due_date = None \/ old.due_date > last'.now
          IN /\ kept => /\ new.due_date = old.due_date
                         /\ new.next_notification = old.next_notification
             /\ ~kept => /\ new.due_date = None
                          /\ new.next_notification = None
                          /\ new.due_date # old.due_date
             /\ old.due_date = last'.now /\ old.due_date # None =>
                    new.due_date = None /\ new.next_notification = None
      ]_vars

(* A poll was reopened six hours before its due date: both dates are kept, *)
(* and the kept next_notification already lies before the reading.         *)
C18_Witness ==
    /\ last.op = "reopen"
    /\ last.now = BaseDue - Hours6
    /\ ~polls[last.poll].closed
    /\ polls[last.poll].due_date > last.now
    /\ polls[last.poll].next_notification # None
    /\ polls[last.poll].next_notification < last.now

(* C19: set_due_date(D) at a reading N before D leaves a next_notification *)
(* later than N, the earliest of D-7d, D-1d, D-6h and D that is later than *)
(* N; a next_notification at or before the reading needs N >= D.           *)
C19_NotificationAfterNow ==
    last.op = "set_due_date" =>
        LET D == last.date
            N == last.now
            nn == polls[last.poll].next_notification
            later == {t \in {D - Days7, D - Day1, D - Hours6, D} : t > N}
        IN /\ N < D => /\ nn > N
                        /\ nn \in later
                        /\ \A t \in later : nn <= t
           /\ nn <= N => N >= D

(* The due date was set exactly one day ahead: the notification of six     *)
(* hours before is the next one.                                           *)
C19_Witness ==
    /\ last.op = "set_due_date"
    /\ last.now = last.date - Day1
    /\ last.now < polls[last.poll].due_date
    /\ polls[last.poll].next_notification = last.date - Hours6
    /\ polls[last.poll].next_notification > last.now

(* C20: whatever its source has, the poll clone_poll has just made has the *)
(* locale and the european_date_format of a poll fresh from the            *)
(* constructor.                                                            *)
C20_CloneDropsLocale ==
    last.op = "clone" =>
        LET c == polls[last.new] IN
        /\ c.exists
        /\ c.locale = Poll(c.user).locale
        /\ c.european_date_format = Poll(c.user).european_date_format

(* A german poll with the european date format was cloned: the clone is    *)
(* english without that format, and so differs from its source.            *)
C20_Witness ==
    /\ last.op = "clone"
    /\ polls[last.poll].exists
    /\ polls[last.poll].locale = "german"
    /\ polls[last.poll].european_date_format
    /\ polls[last.new].locale = "english"
    /\ ~polls[last.new].european_date_format

=============================================================================
